---- MODULE Spec2Model ----
(***************************************************************************)
(* Model of scripts/parity_streak_gate.py: the parity-streak release gate. *)
(* One invocation of main() is a sequential process; every network call    *)
(* and every check of main() is one step, so that the order of requests    *)
(* and the point where the gate stops are visible.  The remote API (what   *)
(* it answers for the run list and for each run) is chosen in Init and     *)
(* never changes: the gate only reads it.                                  *)
(***************************************************************************)
EXTENDS Integers, Sequences, FiniteSets, TLC

\* ---------------------------------------------------------------- bounds
MaxRuns == 2          \* longest run list the API returns
MaxStreak == 2        \* largest PARITY_REQUIRED_STREAK
MaxNegStreak == 1     \* PARITY_REQUIRED_STREAK ranges down to -MaxNegStreak
MaxJourneys == 2      \* journey names in a required_journeys mapping
MaxThreads == 3       \* POST requests the mock server handles concurrently
MaxFailFirst == 2     \* largest --fail-first

\* per_page query parameter of the list-runs request
PerPage == 20

\* ------------------------------------------------------ JSON value model
\* A JSON value as Python sees it, reduced to what the policy can observe:
\*   "absent" key not in the object      "true"/"false" the booleans
\*   "null"   None                        "falsy"  0, "", [], {}
\*   "truthy" any other value (1, "yes", [0], ...)
PresentValues == {"true", "false", "null", "falsy", "truthy"}
OverallValues == {"absent"} \cup PresentValues

\* bool(value) of Python, for a value that is present
Truthy(value) == value \in {"true", "truthy"}

JourneyNames == 1..MaxJourneys
EmptyMapping == [n \in {} |-> "true"]
Mappings == UNION {[names -> PresentValues] : names \in SUBSET JourneyNames}

\* required_journeys: absent, a dict, or a value that is not a dict
RequiredJourneys ==
    {[kind |-> "absent", map |-> EmptyMapping],
     [kind |-> "other", map |-> EmptyMapping]}
    \cup {[kind |-> "mapping", map |-> m] : m \in Mappings}

\* what json.loads can return for the report entry
NonObjectShapes == {"list", "string", "number", "null"}
ObjectReports ==
    {[shape |-> "object", overall_pass |-> o, required_journeys |-> r] :
        o \in OverallValues, r \in RequiredJourneys}
NonObjectReports ==
    {[shape |-> s, overall_pass |-> "absent",
      required_journeys |-> [kind |-> "absent", map |-> EmptyMapping]] :
        s \in NonObjectShapes}
AllReports == ObjectReports \cup NonObjectReports
NoReport == [shape |-> "unset", overall_pass |-> "absent",
             required_journeys |-> [kind |-> "absent", map |-> EmptyMapping]]

\* report.get("overall_pass") is False
OverallIsFalseMutant(report) == ~Truthy(report.overall_pass)
OverallIsFalse(report) == report.overall_pass = "false"

\* all(bool(value) for value in required.values())
AllJourneysTruthyMutant(map) == \E n \in DOMAIN map : Truthy(map[n])
AllJourneysTruthy(map) == \A n \in DOMAIN map : Truthy(map[n])

\* bool(report.get("overall_pass", True))
OverallDefaultTrue(report) ==
    IF report.overall_pass = "absent" THEN TRUE ELSE Truthy(report.overall_pass)

\* _report_passes(report), for a report that is a dict
ReportAlwaysPasses(report) == TRUE
_report_passes(report) ==
    IF OverallIsFalse(report) THEN FALSE
    ELSE IF report.required_journeys.kind = "mapping"
         THEN AllJourneysTruthy(report.required_journeys.map)
         ELSE OverallDefaultTrue(report)

\* report.get raises AttributeError when json.loads returned no dict
PolicyRaises(report) == report.shape # "object"

\* ------------------------------------------------------------ the remote
\* What the API holds for one run: the run's conclusion (None when the key
\* is absent) and the outcome of each request made for it.
\*   load = "list_net_err"   artifacts_url: transport failure
\*          "list_proto_err" artifacts_url: non-2xx status or malformed JSON
\*          "no_artifact"    artifact list without "parity-journey-report"
\*          "dl_err"         archive_download_url: transport / status failure
\*          "no_entry"       archive without *parity_journey_report.json
\*          "bad_json"       entry is not UTF-8 JSON (or archive is no zip)
\*          "ok"             entry decodes to `report`
Conclusions == {"success", "failure", "None"}
LoadErrors == {"list_net_err", "list_proto_err", "no_artifact", "dl_err",
               "no_entry", "bad_json"}

ReportOverallTrue ==
    [shape |-> "object", overall_pass |-> "true",
     required_journeys |-> [kind |-> "absent", map |-> EmptyMapping]]
ReportOverallFalseJourneysTrue ==
    [shape |-> "object", overall_pass |-> "false",
     required_journeys |-> [kind |-> "mapping",
                            map |-> [n \in JourneyNames |-> "true"]]]
ReportJourneyFalse ==
    [shape |-> "object", overall_pass |-> "absent",
     required_journeys |-> [kind |-> "mapping",
         map |-> [n \in JourneyNames |-> IF n = 1 THEN "false" ELSE "true"]]]
ReportIsList == CHOOSE r \in NonObjectReports : r.shape = "list"
GateReports == {ReportOverallTrue, ReportOverallFalseJourneysTrue,
                ReportJourneyFalse, ReportIsList}

Remotes(reports) ==
    {[conclusion |-> c, load |-> "ok", report |-> r] :
        c \in Conclusions, r \in reports}
    \cup {[conclusion |-> c, load |-> l, report |-> NoReport] :
        c \in Conclusions, l \in LoadErrors}

\* run ids are opaque; the run at position i of the list has id RunId(i)
RunId(i) == 100 + i
NoId == 0

\* workflow_runs: the runs whose remote state is f[1], f[2], ...
MakeRuns(f) ==
    [i \in DOMAIN f |-> [id |-> RunId(i), conclusion |-> f[i].conclusion,
                         load |-> f[i].load, report |-> f[i].report]]

\* outcome of the list-runs request
ListOutcomes == {"ok", "net_err", "http_err", "bad_json"}

\* the small streaks, and one streak longer than a page of the run list
StreakValues == ((0 - MaxNegStreak)..MaxStreak) \cup {PerPage + 1}

\* ------------------------------------------------------------- messages
\* The line main() prints, as the fields its f-string formats.
NoMessage ==
    [kind |-> "none", idx |-> 0, id |-> NoId, conclusion |-> "", err |-> "",
     need |-> 0, found |-> 0, streak |-> 0, singleLine |-> TRUE]
ConfigMessage(name) == [NoMessage EXCEPT !.kind = "config", !.err = name]
ShortfallMessage(need, found) ==
    [NoMessage EXCEPT !.kind = "shortfall", !.need = need, !.found = found]
ConclusionMessageZeroBased(i, run) ==
    [NoMessage EXCEPT !.kind = "conclusion", !.idx = i - 1, !.id = run.id,
                      !.conclusion = run.conclusion]
ConclusionMessage(i, run) ==
    [NoMessage EXCEPT !.kind = "conclusion", !.idx = i, !.id = run.id,
                      !.conclusion = run.conclusion]
ReportFailedMessage(run) ==
    [NoMessage EXCEPT !.kind = "report_failed", !.id = run.id]
PassedMessage(streak) ==
    [NoMessage EXCEPT !.kind = "passed", !.streak = streak]
\* an exception that escapes main(): the interpreter prints a traceback
Traceback(exc) ==
    [NoMessage EXCEPT !.kind = "traceback", !.err = exc, !.singleLine = FALSE]

\* exceptions raised inside _load_report_from_run, as str(exc) shows them
MissingArtifactError(run) ==
    [text |-> "missing parity-journey-report artifact", id |-> run.id]
MissingEntryError(run) ==
    [text |-> "artifact missing parity_journey_report.json", id |-> run.id]
\* urllib / zipfile / json exceptions: their text names no run
LibraryError(text) == [text |-> text, id |-> NoId]

\* f"Parity streak gate failed: {exc}"
LoadFailedMessage(exc) ==
    [NoMessage EXCEPT !.kind = "load_error", !.id = exc.id, !.err = exc.text]

\* ---------------------------------------------------- decisions of main
\* len(runs) < required_streak
TooFewRunsOffByOne(found, need) == found <= need
TooFewRunsLax(found, need) == found + 1 < need
TooFewRuns(found, need) == found < need

\* runs[:n], Python slicing: a negative n counts from the end
PySliceMutant(list, n) == list
PySlice(list, n) ==
    LET len == Len(list)
        stop == IF n >= 0 THEN (IF n < len THEN n ELSE len)
                ELSE (IF len + n > 0 THEN len + n ELSE 0)
    IN  SubSeq(list, 1, stop)

\* conclusion != "success"
ConclusionFailsMutant(conclusion) == conclusion = "failure"
ConclusionFails(conclusion) == conclusion # "success"

\* os.environ.get(name) of a variable that is not set (None)
Unset == "<unset>"
\* `not repo`, `not token`: None and the empty string are both missing
MissingOnlyWhenUnset(value) == value = Unset
Missing(value) == value \in {Unset, ""}

\* next((a for a in artifacts if a.get("name") == ...), None) is None
ArtifactMissingMutant(run) == FALSE
ArtifactMissing(run) == run.load = "no_artifact"

\* ---------------------------------------------------------------- state
VARIABLES
    repo, token,        \* GITHUB_REPOSITORY, GITHUB_TOKEN (Unset, "" or set)
    required_streak,    \* int(PARITY_REQUIRED_STREAK)
    apiList, apiRuns,   \* the remote: list-runs outcome and workflow_runs
    pc,                 \* position in main()
    runs, target_runs,  \* locals of main()
    idx, report,        \* loop index (1-based) and the loaded report
    result, exitCode, message,  \* how the invocation ended
    reqs,               \* history: the requests issued, in order
    inspected           \* history: window positions the loop has read

\* scripts/mock_deepseek_api.py: the class attributes of DeepSeekMockHandler
\* and one handler thread per POST request (ThreadingHTTPServer)
VARIABLES
    request_count, fail_first, fail_status,   \* class attributes
    lock,               \* DeepSeekMockHandler.lock: 0 when free, else holder
    hpc,                \* handler thread -> position in do_POST
    path,               \* handler thread -> self.path
    loaded,             \* handler thread -> value read by `+= 1`
    current_request,    \* handler thread -> local of do_POST
    response            \* handler thread -> what _json sent

mock == <<request_count, fail_first, fail_status, lock, hpc, path, loaded,
          current_request, response>>

gate == <<repo, token, required_streak, apiList, apiRuns, pc, runs,
          target_runs, idx, report, result, exitCode, message, reqs,
          inspected>>

vars == <<gate, mock>>

env == <<repo, token, required_streak, apiList, apiRuns>>

Request(kind, pos) == [kind |-> kind, pos |-> pos, per_page |->
                          IF kind = "list_runs" THEN PerPage ELSE 0]

\* --------------------------------------------------- the mock server
Threads == 1..MaxThreads
Paths == {"/chat/completions", "/v1/models"}
\* --fail-status: its default and the value that adds Retry-After
DefaultFailStatus == 503
FailStatuses == {DefaultFailStatus, 429}
NoResponse == [status |-> 0, attempt |-> 0]

\* max(args.fail_first, 0)
ClampFailFirst(n) == IF n > 0 THEN n ELSE 0

\* self.path != "/chat/completions"
EveryPathIsChat(p) == TRUE
IsChatPath(p) == p = "/chat/completions"

\* `with self.lock:` enters only while no thread holds the lock
LockIgnored(holder) == TRUE
LockFree(holder) == holder = 0

\* current_request <= DeepSeekMockHandler.fail_first
InjectFailure(n, limit) == n <= limit

\* the server before any request: main() has set the class attributes
MockStarted(arg, status) ==
    /\ request_count = 0
    /\ fail_first = ClampFailFirst(arg)
    /\ fail_status = status
    /\ lock = 0
    /\ hpc = [t \in Threads |-> "idle"]
    /\ path = [t \in Threads |-> ""]
    /\ loaded = [t \in Threads |-> 0]
    /\ current_request = [t \in Threads |-> 0]
    /\ response = [t \in Threads |-> NoResponse]

\* the class attributes as the class body sets them
MockIdle == MockStarted(0, DefaultFailStatus)

Locals0 ==
    /\ pc = "start"
    /\ runs = <<>>
    /\ target_runs = <<>>
    /\ idx = 0
    /\ report = NoReport
    /\ result = "none"
    /\ exitCode = -1
    /\ message = NoMessage
    /\ reqs = <<>>
    /\ inspected = {}

Init ==
    /\ required_streak \in StreakValues
    /\ \/ /\ repo = "owner/repo"
          /\ token = "secret"
          /\ \/ /\ apiList = "ok"
                /\ \E n \in 0..MaxRuns : \E f \in [1..n -> Remotes(GateReports)] :
                      apiRuns = MakeRuns(f)
             \/ apiList \in ListOutcomes \ {"ok"} /\ apiRuns = <<>>
       \/ /\ repo \in {Unset, "", "owner/repo"}
          /\ token \in {Unset, "", "secret"}
          /\ ~(repo = "owner/repo" /\ token = "secret")
          /\ apiList = "ok"
          /\ \E n \in 0..1 : \E f \in [1..n -> Remotes(GateReports)] :
                apiRuns = MakeRuns(f)
    /\ Locals0
    /\ MockIdle

\* return <code> after print(...): Fail and Pass; an escaping exception
\* ends the process with status 1 and a traceback
Return(code, msg) ==
    /\ pc' = "done"
    /\ result' = IF code = 0 THEN "Pass" ELSE "Fail"
    /\ exitCode' = code
    /\ message' = msg

Raise(exc) ==
    /\ pc' = "done"
    /\ result' = "Crash"
    /\ exitCode' = 1
    /\ message' = Traceback(exc)

Goto(label) ==
    /\ pc' = label
    /\ UNCHANGED <<result, exitCode, message>>

\* lines 70-75
CheckConfig ==
    /\ pc = "start"
    /\ IF Missing(repo) THEN Return(1, ConfigMessage("GITHUB_REPOSITORY"))
       ELSE IF Missing(token) THEN Return(1, ConfigMessage("GITHUB_TOKEN"))
       ELSE Goto("fetch_runs")
    /\ UNCHANGED <<env, mock, runs, target_runs, idx, report, reqs, inspected>>

\* lines 77-83: payload = _get_json(runs_url, token); runs = payload.get(...)
FetchRuns ==
    /\ pc = "fetch_runs"
    /\ reqs' = Append(reqs, Request("list_runs", 0))
    /\ IF apiList = "ok"
       THEN /\ runs' = apiRuns
            /\ Goto("check_len")
       ELSE /\ runs' = runs
            /\ Raise(apiList)
    /\ UNCHANGED <<env, mock, target_runs, idx, report, inspected>>

\* lines 85-92
CheckLength ==
    /\ pc = "check_len"
    /\ IF TooFewRuns(Len(runs), required_streak)
       THEN /\ Return(1, ShortfallMessage(required_streak, Len(runs)))
            /\ UNCHANGED <<target_runs, idx>>
       ELSE /\ target_runs' = PySlice(runs, required_streak)
            /\ idx' = 1
            /\ Goto("loop")
    /\ UNCHANGED <<env, mock, runs, report, reqs, inspected>>

\* lines 93-101: next iteration of the for loop
CheckConclusion ==
    /\ pc = "loop"
    /\ idx <= Len(target_runs)
    /\ inspected' = inspected \cup {idx}
    /\ IF ConclusionFails(target_runs[idx].conclusion)
       THEN Return(1, ConclusionMessage(idx, target_runs[idx]))
       ELSE Goto("artifacts")
    /\ UNCHANGED <<env, mock, runs, target_runs, idx, report, reqs>>

\* lines 37-40, under the try of lines 103-107
GetArtifacts ==
    /\ pc = "artifacts"
    /\ reqs' = Append(reqs, Request("artifacts", idx))
    /\ LET run == target_runs[idx] IN
       IF run.load \in {"list_net_err", "list_proto_err"}
       THEN Return(1, LoadFailedMessage(LibraryError(run.load)))
       ELSE IF ArtifactMissing(run)
       THEN Return(1, LoadFailedMessage(MissingArtifactError(run)))
       ELSE Goto("download")
    /\ UNCHANGED <<env, mock, runs, target_runs, idx, report, inspected>>

\* line 42
DownloadArchive ==
    /\ pc = "download"
    /\ reqs' = Append(reqs, Request("download", idx))
    /\ IF target_runs[idx].load = "dl_err"
       THEN Return(1, LoadFailedMessage(LibraryError("dl_err")))
       ELSE Goto("extract")
    /\ UNCHANGED <<env, mock, runs, target_runs, idx, report, inspected>>

\* lines 43-51
ExtractReport ==
    /\ pc = "extract"
    /\ LET run == target_runs[idx] IN
       IF run.load = "no_entry"
       THEN /\ Return(1, LoadFailedMessage(MissingEntryError(run)))
            /\ report' = report
       ELSE IF run.load = "bad_json"
       THEN /\ Return(1, LoadFailedMessage(LibraryError("bad_json")))
            /\ report' = report
       ELSE /\ report' = run.report
            /\ Goto("policy")
    /\ UNCHANGED <<env, mock, runs, target_runs, idx, reqs, inspected>>

\* lines 109-114, and the loop's advance
EvaluatePolicy ==
    /\ pc = "policy"
    /\ IF PolicyRaises(report)
       THEN /\ Raise("AttributeError")
            /\ idx' = idx
       ELSE IF ~_report_passes(report)
       THEN /\ Return(1, ReportFailedMessage(target_runs[idx]))
            /\ idx' = idx
       ELSE /\ idx' = idx + 1
            /\ Goto("loop")
    /\ UNCHANGED <<env, mock, runs, target_runs, report, reqs, inspected>>

\* lines 116-119: the loop is exhausted
ReportPass ==
    /\ pc = "loop"
    /\ idx > Len(target_runs)
    /\ Return(0, PassedMessage(required_streak))
    /\ UNCHANGED <<env, mock, runs, target_runs, idx, report, reqs, inspected>>

Next ==
    \/ CheckConfig
    \/ FetchRuns
    \/ CheckLength
    \/ CheckConclusion
    \/ GetArtifacts
    \/ DownloadArchive
    \/ ExtractReport
    \/ EvaluatePolicy
    \/ ReportPass

Spec == Init /\ [][Next]_vars

\* The policy alone: one successful run whose report is drawn from every
\* report shape, evaluated by a gate that requires a streak of one.
InitPolicy ==
    /\ required_streak = 1
    /\ repo = "owner/repo"
    /\ token = "secret"
    /\ apiList = "ok"
    /\ \E r \in AllReports :
          apiRuns = MakeRuns(<<[conclusion |-> "success", load |-> "ok",
                                report |-> r]>>)
    /\ Locals0
    /\ MockIdle

SpecPolicy == InitPolicy /\ [][Next]_vars

\* ------------------------------------------- mock server: do_POST steps
\* the gate is not running while the mock server is modelled
GateIdle ==
    /\ repo = Unset
    /\ token = Unset
    /\ required_streak = 0
    /\ apiList = "ok"
    /\ apiRuns = <<>>
    /\ Locals0

\* main(), lines 103-117
InitMock ==
    /\ GateIdle
    /\ \E arg \in (0 - 1)..MaxFailFirst : \E status \in FailStatuses :
          MockStarted(arg, status)

\* a POST arrives; the server hands it to a new handler thread
Arrive(t) ==
    /\ hpc[t] = "idle"
    /\ \E p \in Paths : path' = [path EXCEPT ![t] = p]
    /\ hpc' = [hpc EXCEPT ![t] = "route"]
    /\ UNCHANGED <<gate, request_count, fail_first, fail_status, lock,
                   loaded, current_request, response>>

\* lines 23-29
Route(t) ==
    /\ hpc[t] = "route"
    /\ IF IsChatPath(path[t])
       THEN /\ hpc' = [hpc EXCEPT ![t] = "acquire"]
            /\ response' = response
       ELSE /\ hpc' = [hpc EXCEPT ![t] = "done"]
            /\ response' = [response EXCEPT
                               ![t] = [status |-> 404, attempt |-> 0]]
    /\ UNCHANGED <<gate, request_count, fail_first, fail_status, lock, path,
                   loaded, current_request>>

\* line 31: with self.lock
Acquire(t) ==
    /\ hpc[t] = "acquire"
    /\ LockFree(lock)
    /\ lock' = t
    /\ hpc' = [hpc EXCEPT ![t] = "load"]
    /\ UNCHANGED <<gate, request_count, fail_first, fail_status, path,
                   loaded, current_request, response>>

\* line 32, the read of request_count += 1
LoadCount(t) ==
    /\ hpc[t] = "load"
    /\ loaded' = [loaded EXCEPT ![t] = request_count]
    /\ hpc' = [hpc EXCEPT ![t] = "store"]
    /\ UNCHANGED <<gate, request_count, fail_first, fail_status, lock, path,
                   current_request, response>>

\* line 32, the write of request_count += 1
StoreCount(t) ==
    /\ hpc[t] = "store"
    /\ request_count' = loaded[t] + 1
    /\ hpc' = [hpc EXCEPT ![t] = "copy"]
    /\ UNCHANGED <<gate, fail_first, fail_status, lock, path, loaded,
                   current_request, response>>

\* line 33
CopyCount(t) ==
    /\ hpc[t] = "copy"
    /\ current_request' = [current_request EXCEPT ![t] = request_count]
    /\ hpc' = [hpc EXCEPT ![t] = "release"]
    /\ UNCHANGED <<gate, request_count, fail_first, fail_status, lock, path,
                   loaded, response>>

\* leaving the with block
Release(t) ==
    /\ hpc[t] = "release"
    /\ lock' = 0
    /\ hpc' = [hpc EXCEPT ![t] = "respond"]
    /\ UNCHANGED <<gate, request_count, fail_first, fail_status, path,
                   loaded, current_request, response>>

\* lines 35-67
Respond(t) ==
    /\ hpc[t] = "respond"
    /\ response' = [response EXCEPT ![t] =
          IF InjectFailure(current_request[t], fail_first)
          THEN [status |-> fail_status, attempt |-> current_request[t]]
          ELSE [status |-> 200, attempt |-> 0]]
    /\ hpc' = [hpc EXCEPT ![t] = "done"]
    /\ UNCHANGED <<gate, request_count, fail_first, fail_status, lock, path,
                   loaded, current_request>>

NextMock ==
    \E t \in Threads :
        \/ Arrive(t)
        \/ Route(t)
        \/ Acquire(t)
        \/ LoadCount(t)
        \/ StoreCount(t)
        \/ CopyCount(t)
        \/ Release(t)
        \/ Respond(t)

SpecMock == InitMock /\ [][NextMock]_vars

\* ================================================================ claims
Done == pc = "done"
\* the list-runs call was made and returned the run list
ListReturned == apiList = "ok" /\ reqs # <<>>
ArtifactRequests == {k \in DOMAIN reqs : reqs[k].kind \in {"artifacts", "download"}}
Requested(kind, i) == \E k \in DOMAIN reqs : reqs[k].kind = kind /\ reqs[k].pos = i

\* The report pass policy as section 4.4 of the specification words it.
PolicyReference(r) ==
    CASE r.overall_pass = "false" -> FALSE
      [] r.overall_pass # "false" /\ r.required_journeys.kind = "mapping" ->
            ~ \E n \in DOMAIN r.required_journeys.map :
                  r.required_journeys.map[n] \in {"false", "null", "falsy"}
      [] OTHER -> r.overall_pass \in {"absent", "true", "truthy"}

\* a run that passes every check of the window
GoodRun(run) ==
    /\ run.conclusion = "success"
    /\ run.load = "ok"
    /\ run.report.shape = "object"
    /\ PolicyReference(run.report)

\* C1: with required_streak >= 1 and a returned list of at least
\* required_streak runs, if each of the first required_streak runs has
\* conclusion "success", a report that loads and a report that satisfies the
\* policy, main ends in Pass with exit code 0 and a message naming the streak.
C1_AllGoodRunsPass ==
    (/\ Done
     /\ ListReturned
     /\ required_streak >= 1
     /\ Len(apiRuns) >= required_streak
     /\ \A i \in 1..required_streak : GoodRun(apiRuns[i]))
    => (/\ result = "Pass"
        /\ exitCode = 0
        /\ message.kind = "passed"
        /\ message.streak = required_streak)

C1_Witness ==
    /\ Done
    /\ result = "Pass"
    /\ required_streak = 2
    /\ Len(apiRuns) = 2
    /\ \A i \in 1..2 : GoodRun(apiRuns[i])

\* C2: when the list-runs call returns fewer runs than required_streak the
\* gate ends in Fail with exit code 1 and a message citing the required and
\* the found counts, whatever the runs contain, and the list-runs request is
\* the only request issued.
C2_ShortListFails ==
    (Done /\ ListReturned /\ Len(apiRuns) < required_streak)
    => (/\ result = "Fail"
        /\ exitCode = 1
        /\ message.kind = "shortfall"
        /\ message.need = required_streak
        /\ message.found = Len(apiRuns)
        /\ ArtifactRequests = {}
        /\ Len(reqs) = 1)

C2_Witness ==
    /\ Done
    /\ ListReturned
    /\ required_streak = 2
    /\ Len(apiRuns) = 1
    /\ GoodRun(apiRuns[1])
    /\ message.kind = "shortfall"

\* C3 (as claimed): if any run at a position 1..required_streak of the
\* returned list has a conclusion other than "success", the gate ends in
\* Fail, whatever the other runs of the window contain.
C3_AnyNonSuccessFails ==
    (/\ Done
     /\ ListReturned
     /\ \E i \in 1..required_streak :
            i <= Len(apiRuns) /\ apiRuns[i].conclusion # "success")
    => result = "Fail"

\* the run at a window position fails one of the three checks
ConclusionCheckFails(run) == run.conclusion # "success"
LoadCheckFails(run) == run.conclusion = "success" /\ run.load # "ok"
PolicyCheckFails(run) ==
    /\ run.conclusion = "success"
    /\ run.load = "ok"
    /\ (run.report.shape # "object" \/ ~PolicyReference(run.report))
RunFailsACheck(run) ==
    ConclusionCheckFails(run) \/ LoadCheckFails(run) \/ PolicyCheckFails(run)

\* C4: short-circuit.  No artifact-list or download request is ever issued
\* for a window position after a run that fails a check; a run whose
\* conclusion check fails is not fetched at all, a run whose artifact list
\* cannot be used is not downloaded; and once the gate has stopped no step
\* (hence no request) follows.
C4_ShortCircuit ==
    /\ \A i \in DOMAIN apiRuns : \A k \in ArtifactRequests :
          /\ RunFailsACheck(apiRuns[i]) => reqs[k].pos <= i
          /\ ConclusionCheckFails(apiRuns[i]) => reqs[k].pos # i
          /\ apiRuns[i].load \in {"list_net_err", "list_proto_err", "no_artifact"}
                => ~(reqs[k].kind = "download" /\ reqs[k].pos = i)
    /\ result \in {"Fail", "Crash"} => pc = "done"
    /\ pc = "done" => ~ENABLED Next

C4_Witness ==
    /\ Done
    /\ result = "Fail"
    /\ required_streak = 2
    /\ Len(apiRuns) = 2
    /\ PolicyCheckFails(apiRuns[1])
    /\ GoodRun(apiRuns[2])
    /\ Requested("download", 1)
    /\ ~Requested("artifacts", 2)

\* C5 (as claimed): every fatal condition of the API client, the initial
\* list-runs call included, ends the gate in Fail: exit code 1 with a
\* single-line diagnostic, never an invocation without a Pass/Fail result
\* (stated for a positive required_streak).
C5_ClientErrorsEndInFail ==
    (Done /\ required_streak >= 1)
    => (/\ (reqs # <<>> /\ apiList # "ok")
              => (result = "Fail" /\ exitCode = 1 /\ message.singleLine)
        /\ \A i \in DOMAIN target_runs :
              (/\ idx = i
               /\ Requested("artifacts", i)
               /\ target_runs[i].load \in
                     {"list_net_err", "list_proto_err", "dl_err"})
              => (result = "Fail" /\ exitCode = 1 /\ message.singleLine))

\* C6 (as claimed): for a reached in-window run with conclusion "success",
\* any error while fetching the artifact list, downloading the archive or
\* extracting the report ends the gate in Fail with a message citing that
\* run's id together with the underlying error message.
C6_LoadErrorCitesRunId ==
    \A i \in DOMAIN target_runs :
        (/\ Done
         /\ i <= required_streak
         /\ idx = i
         /\ Requested("artifacts", i)
         /\ target_runs[i].load # "ok")
        => (/\ result = "Fail"
            /\ message.kind = "load_error"
            /\ message.err # ""
            /\ message.id = target_runs[i].id)

\* C7: a reached in-window run with conclusion "success" whose artifact list
\* has no "parity-journey-report" ends the gate in Fail with a message naming
\* that run's id; the run is not skipped: nothing is downloaded for it and
\* no later run is inspected or fetched.
C7_MissingArtifactNamesRun ==
    \A i \in DOMAIN target_runs :
        (Requested("artifacts", i) /\ target_runs[i].load = "no_artifact")
        => (/\ pc = "done"
            /\ result = "Fail"
            /\ exitCode = 1
            /\ message.kind = "load_error"
            /\ message.id = target_runs[i].id
            /\ message.err = "missing parity-journey-report artifact"
            /\ idx = i
            /\ ~Requested("download", i)
            /\ \A j \in inspected : j <= i
            /\ \A k \in ArtifactRequests : reqs[k].pos <= i)

C7_Witness ==
    /\ Done
    /\ idx = 2
    /\ Requested("artifacts", 2)
    /\ target_runs[2].load = "no_artifact"
    /\ message.id = RunId(2)

\* C8: _report_passes agrees with the policy of section 4.4 on every report
\* object: the gate, given one successful run carrying the report, passes
\* exactly when the reference policy passes and fails on the report
\* otherwise.
C8_PolicyMatchesReference ==
    /\ (pc = "policy" /\ report.shape = "object")
          => (_report_passes(report) <=> PolicyReference(report))
    /\ (Done /\ report.shape = "object")
       => (/\ (result = "Pass") <=> PolicyReference(report)
           /\ (result = "Fail" /\ message.kind = "report_failed")
                 <=> ~PolicyReference(report))

C8_Witness ==
    /\ Done
    /\ report.shape = "object"
    /\ report.overall_pass = "falsy"
    /\ report.required_journeys.kind = "mapping"
    /\ DOMAIN report.required_journeys.map = JourneyNames
    /\ result = "Pass"

\* C9 (as claimed): if the report of any of the first required_streak runs
\* has overall_pass false, the gate ends in Fail whatever its
\* required_journeys and whatever the other runs of the window contain.
C9_OverallFalseFails ==
    (/\ Done
     /\ ListReturned
     /\ \E i \in 1..required_streak :
            /\ i <= Len(apiRuns)
            /\ apiRuns[i].load = "ok"
            /\ apiRuns[i].report.shape = "object"
            /\ apiRuns[i].report.overall_pass = "false")
    => result = "Fail"

\* C10 (as claimed): only the first required_streak runs of the returned
\* list are considered: no position greater than required_streak is ever
\* inspected or fetched.
C10_OnlyWindowTouched ==
    /\ \A i \in inspected : i <= required_streak
    /\ \A k \in ArtifactRequests : reqs[k].pos <= required_streak

\* an environment input that is unset or empty
NotProvided(value) == value = Unset \/ value = ""

C12_PageCoversStreak ==
    \A k \in DOMAIN reqs :
        reqs[k].kind = "list_runs" => reqs[k].per_page >= required_streak

\* the requests of one kind issued for one window position
RequestsFor(kind, i) == {k \in DOMAIN reqs : reqs[k].kind = kind /\ reqs[k].pos = i}

\* C13 (as claimed): no retries.  Within one invocation the list-runs
\* endpoint, each run's artifact list and each archive are requested at
\* most once, the total number of requests is at most 1 + 2*required_streak,
\* and nothing follows Pass or Fail.
C13_NoRetriesBoundedRequests ==
    /\ \A kind \in {"list_runs", "artifacts", "download"} :
          \A i \in 0..Len(apiRuns) : Cardinality(RequestsFor(kind, i)) <= 1
    /\ reqs # <<>> => Len(reqs) <= 1 + 2 * required_streak
    /\ pc = "done" => ~ENABLED Next

\* positions of the returned list whose conclusion is not "success"
NonSuccessPositions == {j \in DOMAIN apiRuns : apiRuns[j].conclusion # "success"}

\* C14: when the gate fails because of a run's conclusion, the message cites
\* the 1-based window index, the id and the conclusion of the earliest run
\* in returned order whose conclusion is not "success", and every run before
\* it had conclusion "success", a report that loaded and a passing report.
C14_ConclusionMessageCitesEarliest ==
    (Done /\ message.kind = "conclusion")
    => (/\ result = "Fail"
        /\ message.idx \in NonSuccessPositions
        /\ \A j \in NonSuccessPositions : message.idx <= j
        /\ message.idx >= 1
        /\ message.id = apiRuns[message.idx].id
        /\ message.conclusion = apiRuns[message.idx].conclusion
        /\ \A j \in 1..(message.idx - 1) : GoodRun(apiRuns[j]))

C14_Witness ==
    /\ Done
    /\ required_streak = 2
    /\ message.kind = "conclusion"
    /\ message.idx = 2
    /\ message.id = RunId(2)
    /\ message.conclusion = "failure"
    /\ GoodRun(apiRuns[1])

\* C15: requests follow a fixed order.  list-runs is the first request; no
\* artifact-list or download request is issued for a run whose conclusion is
\* not "success"; the download of run i directly follows run i's artifact
\* list, which contained a "parity-journey-report" artifact; and the
\* artifact list of run i+1 is requested only after run i was downloaded and
\* its report passed the policy.
C15_RequestOrder ==
    \A k \in DOMAIN reqs :
        /\ (reqs[k].kind = "list_runs") <=> (k = 1)
        /\ reqs[k].kind \in {"artifacts", "download"} =>
              /\ reqs[k].pos \in DOMAIN apiRuns
              /\ apiRuns[reqs[k].pos].conclusion = "success"
        /\ reqs[k].kind = "download" =>
              /\ reqs[k - 1].kind = "artifacts"
              /\ reqs[k - 1].pos = reqs[k].pos
              /\ apiRuns[reqs[k].pos].load \notin
                    {"list_net_err", "list_proto_err", "no_artifact"}
        /\ reqs[k].kind = "artifacts" =>
              IF reqs[k].pos = 1 THEN k = 2
              ELSE /\ reqs[k - 1].kind = "download"
                   /\ reqs[k - 1].pos = reqs[k].pos - 1
                   /\ GoodRun(apiRuns[reqs[k].pos - 1])

C15_Witness ==
    /\ Len(reqs) = 5
    /\ reqs[4].kind = "artifacts" /\ reqs[4].pos = 2
    /\ reqs[5].kind = "download" /\ reqs[5].pos = 2
    /\ apiRuns[2].load = "no_entry"

\* C16 (as claimed): whenever the gate ends in Pass, the number of runs
\* checked equals required_streak and is at least 1, and the runs checked
\* are exactly the first required_streak runs of the returned list, for
\* every integer required_streak, 0 and negative values included.
C16_PassChecksExactlyStreak ==
    (Done /\ result = "Pass")
    => (/\ Cardinality(inspected) = required_streak
        /\ Cardinality(inspected) >= 1
        /\ inspected = 1..required_streak)

\* C17 (as claimed): for every in-window run whose archive entry decodes to
\* a JSON value of any shape, the policy evaluation ends in a Pass/Fail
\* decision: a report that is no JSON object never makes an error escape
\* the evaluator.
C17_AnyReportShapeDecided ==
    (Done /\ report.shape # "unset") => result \in {"Pass", "Fail"}

\* POSTs to /chat/completions that have been given their sequence number,
\* and those already answered
ChatThreads == {t \in Threads : path[t] = "/chat/completions"}
Numbered == {t \in ChatThreads : hpc[t] \in {"release", "respond", "done"}}
Answered == {t \in ChatThreads : hpc[t] = "done"}
Failed == {t \in Answered : response[t].attempt > 0}
Least(a, b) == IF a <= b THEN a ELSE b

C19_OtherPathsNotCounted ==
    /\ [](request_count =
            Cardinality({t \in ChatThreads :
                hpc[t] \in {"copy", "release", "respond", "done"}}))
    /\ [](\A t \in Threads \ ChatThreads :
            /\ current_request[t] = 0
            /\ hpc[t] \in {"idle", "route", "done"}
            /\ hpc[t] = "done" => response[t] = [status |-> 404, attempt |-> 0])
    /\ [][/\ request_count' \in {request_count, request_count + 1}
          /\ \A t \in Threads :
                (path[t] # "/chat/completions" /\ hpc[t] = "route"
                    /\ hpc'[t] # "route")
                => (request_count' = request_count /\ response'[t].status = 404)
         ]_vars

C19_Witness ==
    /\ \E t \in Threads \ ChatThreads :
          /\ hpc[t] = "done"
          /\ response[t].status = 404
    /\ fail_first = 1
    /\ request_count = 1
    /\ Cardinality(Failed) = 1
    /\ \E t \in ChatThreads : hpc[t] = "acquire"

====
